---- MODULE Spec2Model ----
(***************************************************************************)
(* The client-side session core of the video call (components/Room.jsx):   *)
(* one Room component ("self"), its media stream, its signaling socket,    *)
(* its call transport (the Peer object), the admission state machine and   *)
(* the mesh of media calls with the remote participants.                   *)
(*                                                                         *)
(* Room.jsx holds two evolutions of the component: lines 1-926 (variant 1, *)
(* with the connectionEstablished ref) and lines 928-1807 (variant 2).     *)
(* `variant` is fixed at construction and selects which one runs.          *)
(*                                                                         *)
(* The coordination server and the remote participants are the             *)
(* environment.  The server may send any room event once the join request  *)
(* has been emitted and the socket is connected.  Every remote participant *)
(* runs the same makeCall / 'call' handler code against its own registry;  *)
(* of a remote's state only its registry entry for self is kept.          *)
(***************************************************************************)
EXTENDS Integers, FiniteSets, Sequences, TLC

\* Bounds of the model.
MaxCalls == 2        \* media connections created between self and the remotes
MaxStreams == 2      \* successful getUserMedia acquisitions

Remotes == {"p1", "p2"}

\* The transport identity the PeerJS server gives self, and every peer id a
\* roster event can carry.
Self == "self"
PeerIds == Remotes \cup {Self}

\* The peerId the socket handlers compare with: they are registered by the
\* first render's setupSocketEvents and keep that render's peerId state.
CapturedPeerId == ""
Variants == {1, 2}

\* A sender slot of a call's RTCPeerConnection: no sender of that kind, a
\* sender whose track is null, or the generation of the track it carries.
NoSender == -1
NullTrack == 0

VARIABLES
  variant,                \* which evolution of Room.jsx runs
  username,               \* location.state.username given or not
  mounted,                \* the component is mounted (React state is writable)
  initState,              \* position of useEffect / initializeConnection
  streamRef,              \* streamRef.current: the set of tracks of the stream, {} = undefined
  liveTracks,             \* tracks acquired and not stopped
  nStreams,               \* getUserMedia acquisitions so far
  videoEnabled,           \* React state videoEnabled
  toggling,               \* toggleVideo calls awaiting getUserMedia
  socket,                 \* socketRef.current: none / connecting / connected / closed
  joined,                 \* a join-room has been emitted
  peer,                   \* peerRef.current: none / pending / open / destroyed
  peerId,                 \* React state peerId: "" until peer 'open'
  inits,                  \* initializeConnection runs awaiting getUserMedia
  lostSockets,            \* sockets created, not disconnected, no longer in socketRef
  lostPeers,              \* Peers created, not destroyed, no longer in peerRef
  peerRetry,              \* a setTimeout of the peer 'error' handler is pending
  roomState,              \* React state roomState
  isHost,                 \* React state isHost
  connectionEstablished,  \* connectionEstablished.current (variant 1 only)
  peersRef,               \* peersRef.current: peer id -> call id, 0 = no entry
  participants,           \* React state participants: peer id -> entry
  calls,                  \* every media connection created so far, by call id
  timers,                 \* peer ids with a pending setTimeout(makeCall)
  rReg,                   \* remote r's registry entry for self: call id, 0 = none
  waitingParticipants,    \* React state waitingParticipants (the waiting roster)
  audioEnabled,           \* React state audioEnabled
  muted,                  \* tracks whose enabled flag is false
  attempts,               \* getUserMedia calls made for the current effect run
  navTimer,               \* a setTimeout(navigate("/")) is pending
  last                    \* the handler that ran last and the peer id or value it got

vars == << variant, username, mounted, initState, streamRef, liveTracks,
           nStreams, videoEnabled, toggling, socket, joined, peer, peerId,
           inits, lostSockets, lostPeers, peerRetry, roomState,
           isHost, connectionEstablished, peersRef, participants, calls,
           timers, rReg, waitingParticipants, audioEnabled, muted, attempts,
           navTimer, last >>

mediaVars == << streamRef, liveTracks, nStreams, videoEnabled, toggling >>
admVars == << roomState, isHost, connectionEstablished >>
meshVars == << peersRef, participants, calls, timers >>
remoteVars == << rReg >>
startVars == << inits, lostSockets, lostPeers, peerRetry >>
lifeVars == << variant, username, mounted, initState, socket, joined, peer,
              peerId, startVars >>
uiVars == << waitingParticipants, audioEnabled, muted >>
exitVars == << attempts, navTimer >>
sessionVars == << uiVars, exitVars >>

----------------------------------------------------------------------------
\* Media tracks and streams.

Track(g, k) == [gen |-> g, kind |-> k]

\* An acquisition that yields no stream.
NoStream(g) == {}

StreamOf(g) == {Track(g, "video"), Track(g, "audio")}
VideoTracks(s) == {t \in s : t.kind = "video"}
AudioTracks(s) == {t \in s : t.kind = "audio"}

\* The sender slot a new RTCPeerConnection gets for `kind` when the call is
\* placed or answered with stream s (one addTrack per track of the stream).
SenderFor(s, k) ==
  IF \E t \in s : t.kind = k
    THEN (CHOOSE t \in s : t.kind = k).gen
    ELSE NoSender

\* The step is a run of handler op with argument arg.
Did(op, arg) == last' = [op |-> op, arg |-> arg]

\* React drops state updates of an unmounted component.
SetState(new, old) == IF mounted THEN new ELSE old

----------------------------------------------------------------------------
\* Participants map and call records.

\* An entry of the participants map: the key is there or not, the call it
\* holds (0 = undefined), the mirrored flags and the display name ("unset" =
\* undefined).  addParticipant writes audioEnabled: true, videoEnabled: true
\* and the name it is given, "Unknown" by default.
Absent ==
  [there |-> FALSE, call |-> 0, audioEnabled |-> "unset",
   videoEnabled |-> "unset", username |-> "unset"]
Entry(c, name) ==
  [there |-> TRUE, call |-> c, audioEnabled |-> "true",
   videoEnabled |-> "true", username |-> name]

CallIds == DOMAIN calls
SelfLive(c) == calls[c].loc \in {"pending", "open"}
RemoteLive(c) == calls[c].rem \in {"pending", "open"}

Init ==
  /\ variant \in Variants
  /\ username \in BOOLEAN
  /\ mounted = TRUE
  /\ initState = "idle"
  /\ streamRef = {}
  /\ liveTracks = {}
  /\ nStreams = 0
  /\ videoEnabled = TRUE
  /\ toggling = 0
  /\ socket = "none"
  /\ joined = FALSE
  /\ peer = "none"
  /\ peerId = ""
  /\ inits = 0
  /\ lostSockets = 0
  /\ lostPeers = 0
  /\ peerRetry = FALSE
  /\ roomState = "connecting"
  /\ isHost = FALSE
  /\ connectionEstablished = FALSE
  /\ peersRef = [p \in PeerIds |-> 0]
  /\ participants = [p \in PeerIds |-> Absent]
  /\ calls = << >>
  /\ timers = {}
  /\ rReg = [p \in Remotes |-> 0]
  /\ waitingParticipants = {}
  /\ audioEnabled = TRUE
  /\ muted = {}
  /\ attempts = 0
  /\ navTimer = FALSE
  /\ last = [op |-> "construct", arg |-> "-"]

----------------------------------------------------------------------------
\* Start sequence.

\* useEffect: without a username navigate home, else start initializeConnection.
UseEffect ==
  /\ Did("UseEffect", "-")
  /\ initState = "idle"
  /\ IF username
       THEN /\ initState' = "media"
            /\ inits' = inits + 1
            /\ attempts' = 1
            /\ mounted' = mounted
       ELSE /\ initState' = "nouser"
            /\ inits' = inits
            /\ attempts' = attempts
            /\ mounted' = FALSE
  /\ UNCHANGED << variant, username, socket, joined, peer, peerId >>
  /\ UNCHANGED << lostSockets, lostPeers, peerRetry >>
  /\ UNCHANGED << mediaVars, admVars, meshVars, remoteVars, uiVars, navTimer >>

\* The socket / the Peer a ref holds is up: overwriting the ref loses it.
SocketUp == socket \in {"connecting", "connected"}
PeerUp == peer \in {"pending", "open"}

\* getUserMedia resolves: the stream is stored, the socket and the Peer are
\* created, whatever the refs held, and the event handlers are registered.
InitMediaResolved ==
  /\ Did("InitMediaResolved", "-")
  /\ inits > 0
  /\ nStreams < MaxStreams
  /\ inits' = inits - 1
  /\ nStreams' = nStreams + 1
  /\ streamRef' = StreamOf(nStreams + 1)
  /\ liveTracks' = liveTracks \cup StreamOf(nStreams + 1)
  /\ lostSockets' = IF SocketUp THEN lostSockets + 1 ELSE lostSockets
  /\ lostPeers' = IF PeerUp THEN lostPeers + 1 ELSE lostPeers
  /\ socket' = "connecting"
  /\ peer' = "pending"
  /\ joined' = FALSE
  /\ initState' = "done"
  /\ UNCHANGED << variant, username, mounted, peerId, peerRetry >>
  /\ UNCHANGED << videoEnabled, toggling >>
  /\ UNCHANGED << admVars, meshVars, remoteVars, sessionVars >>

\* A start that creates the socket and the Peer whatever getUserMedia returned.
InitMediaRejectedConnects ==
  /\ Did("InitMediaRejected", "-")
  /\ inits > 0
  /\ inits' = inits - 1
  /\ initState' = "failed"
  /\ navTimer' = TRUE
  /\ socket' = "connecting"
  /\ peer' = "pending"
  /\ UNCHANGED << variant, username, mounted, joined, peerId >>
  /\ UNCHANGED << lostSockets, lostPeers, peerRetry >>
  /\ UNCHANGED << mediaVars, admVars, meshVars, remoteVars, uiVars, attempts >>

\* getUserMedia rejects: the catch block reports and schedules navigate("/").
InitMediaRejected ==
  /\ Did("InitMediaRejected", "-")
  /\ inits > 0
  /\ inits' = inits - 1
  /\ initState' = "failed"
  /\ navTimer' = TRUE
  /\ UNCHANGED << variant, username, mounted, socket, joined, peer, peerId >>
  /\ UNCHANGED << lostSockets, lostPeers, peerRetry >>
  /\ UNCHANGED << mediaVars, admVars, meshVars, remoteVars, uiVars, attempts >>

\* socket 'connect'.
SocketConnect ==
  /\ Did("SocketConnect", "-")
  /\ socket = "connecting"
  /\ socket' = "connected"
  /\ UNCHANGED << variant, username, mounted, initState, joined, peer, peerId >>
  /\ UNCHANGED startVars
  /\ UNCHANGED << mediaVars, admVars, meshVars, remoteVars, sessionVars >>

\* peer 'open': the transport identity is known, join-room is emitted.
PeerOpen ==
  /\ Did("PeerOpen", "-")
  /\ peer = "pending"
  /\ peer' = "open"
  /\ peerId' = SetState(Self, peerId)
  /\ joined' = TRUE
  /\ UNCHANGED << variant, username, mounted, initState, socket, startVars >>
  /\ UNCHANGED << mediaVars, admVars, meshVars, remoteVars, sessionVars >>

\* The server sends room events to a socket that has joined and is connected.
ServerTalks == socket = "connected" /\ joined

----------------------------------------------------------------------------
\* Admission.

Statuses == {"approved", "waiting", "denied"}

\* A handler that takes an absent isHost for a granted one.
HostOfAbsentGranted(hostStatus) == hostStatus # "false"

\* hostStatus || false: the isHost value recorded on approval; hostStatus is
\* "absent" when the event carries no isHost.
HostOf(hostStatus) == hostStatus = "true"

\* socket 'admission-status' {status, isHost}.
AdmissionStatus(status, hostStatus) ==
  /\ Did("AdmissionStatus", status)
  /\ ServerTalks
  /\ CASE status = "approved" ->
            /\ roomState' = SetState("approved", roomState)
            /\ isHost' = SetState(HostOf(hostStatus), isHost)
            /\ connectionEstablished' =
                 IF variant = 1 THEN TRUE ELSE connectionEstablished
            /\ navTimer' = navTimer
       [] status = "waiting" ->
            /\ roomState' = SetState("waiting", roomState)
            /\ UNCHANGED << isHost, connectionEstablished, navTimer >>
       [] status = "denied" ->
            /\ roomState' = SetState("denied", roomState)
            /\ navTimer' = TRUE
            /\ UNCHANGED << isHost, connectionEstablished >>
  /\ UNCHANGED << lifeVars, mediaVars, meshVars, remoteVars, uiVars, attempts >>

\* A host transfer that does not reach the isHost state.
HostTransferIgnored(newHostStatus) ==
  /\ Did("HostTransferred", IF newHostStatus THEN "true" ELSE "false")
  /\ ServerTalks
  /\ UNCHANGED << lifeVars, mediaVars, admVars, meshVars, remoteVars, sessionVars >>

\* socket 'host-transferred' {isHost}.
HostTransferred(newHostStatus) ==
  /\ Did("HostTransferred", IF newHostStatus THEN "true" ELSE "false")
  /\ ServerTalks
  /\ isHost' = SetState(newHostStatus, isHost)
  /\ UNCHANGED << roomState, connectionEstablished >>
  /\ UNCHANGED << lifeVars, mediaVars, meshVars, remoteVars, sessionVars >>

\* The host-control functions.
HostControls == {"approveParticipant", "denyParticipant",
                 "removeParticipantHandler"}

\* What lets a host-control function emit: socketRef.current, and in variant 1
\* the isHost of the latest render; variant 2 has no isHost test.
HostControlEmits == socket # "none" /\ (variant = 1 => isHost)

\* A host-control function that also takes the person off the local roster.
HostControlActsLocally(fn) ==
  /\ Did(fn, IF HostControlEmits THEN "emit" ELSE "refused")
  /\ mounted
  /\ roomState = "approved"
  /\ waitingParticipants' = {}
  /\ UNCHANGED << audioEnabled, muted, exitVars >>
  /\ UNCHANGED << lifeVars, mediaVars, admVars, meshVars, remoteVars >>

\* approveParticipant / denyParticipant / removeParticipantHandler (confirmed
\* in its dialog) is called in the room view: the request is emitted or not.
HostControl(fn) ==
  /\ Did(fn, IF HostControlEmits THEN "emit" ELSE "refused")
  /\ mounted
  /\ roomState = "approved"
  /\ UNCHANGED << lifeVars, mediaVars, admVars, meshVars, remoteVars, sessionVars >>

\* The people a waiting roster can name.
Waiters == {"w1"}

\* socket 'waiting-room-update' {waitingParticipants}:
\* setWaitingParticipants(waiting || []).  The isHost test of the first
\* variant's handler guards only the host panel and a notification.
WaitingRoomUpdate(waiting) ==
  /\ Did("WaitingRoomUpdate", IF waiting = {} THEN "empty" ELSE "waiting")
  /\ ServerTalks
  /\ waitingParticipants' = SetState(waiting, waitingParticipants)
  /\ UNCHANGED << audioEnabled, muted, exitVars >>
  /\ UNCHANGED << lifeVars, mediaVars, admVars, meshVars, remoteVars >>

----------------------------------------------------------------------------
\* Mesh: the registry peersRef, the participants map and the media calls.

\* peer.call(id, stream) / the MediaConnection handed to the 'call' handler.
\* loc and rem are the two ends: none (not created yet), pending (created,
\* not open), open, closed.  An outbound call starts pending at self with the
\* OFFER in flight; an inbound call starts pending at the remote.
NewCall(p, dir, s) ==
  [peer |-> p, dir |-> dir,
   loc |-> IF dir = "out" THEN "pending" ELSE "none",
   rem |-> IF dir = "out" THEN "none" ELSE "pending",
   sv |-> IF dir = "out" THEN SenderFor(s, "video") ELSE NoSender,
   sa |-> IF dir = "out" THEN SenderFor(s, "audio") ELSE NoSender]

\* A makeCall that does not look at the registry.
RegistryNotChecked(reg, p) == TRUE

\* The existing-connection check of makeCall: the registry has no entry for p.
RegistryFree(reg, p) == reg[p] = 0

\* makeCall returns early unless the Peer is open and the registry is free;
\* peer.call returns nothing without a stream.
CanCall(p) ==
  /\ peer = "open"
  /\ RegistryFree(peersRef, p)
  /\ streamRef # {}

\* makeCall(remotePeerId): place the outbound call and register it.
makeCall(p) ==
  IF CanCall(p)
    THEN /\ calls' = Append(calls, NewCall(p, "out", streamRef))
         /\ peersRef' = [peersRef EXCEPT ![p] = Len(calls) + 1]
    ELSE UNCHANGED << calls, peersRef >>

\* addParticipant(peerId, stream, call).
addParticipant(part, p, c, name) == [part EXCEPT ![p] = Entry(c, name)]

\* A removal that empties the whole registry.
clearRegistry(reg, P) == [p \in PeerIds |-> 0]

\* removeParticipant(peerId), on the registry and on the participants map,
\* for every peer id of P.
removeFromRegistry(reg, P) == [p \in PeerIds |-> IF p \in P THEN 0 ELSE reg[p]]
removeFromParticipants(part, P) ==
  [p \in PeerIds |-> IF p \in P THEN Absent ELSE part[p]]

\* MediaConnection.close() on every call of cs: the end is closed and its
\* peerConnection (with its senders) released; 'close' is emitted only by a
\* call that was open.
closed(call) ==
  [call EXCEPT !.loc = "closed", !.sv = NoSender, !.sa = NoSender]
closeAll(cs) ==
  [c \in DOMAIN calls |->
     IF c \in cs /\ SelfLive(c) THEN closed(calls[c]) ELSE calls[c]]
ClosePeers(cs) == {calls[c].peer : c \in {d \in cs : calls[d].loc = "open"}}

\* socket 'user-joined' {peerId}: schedule makeCall after 1000 ms.  The peerId
\* the handler compares with is the one captured at registration, "".
UserJoinedGate ==
  IF variant = 1 THEN connectionEstablished ELSE peer = "open"

\* newPeerId !== peerId, with the peerId the handler holds.
NotOwnId(p) == p # CapturedPeerId

UserJoined(p) ==
  /\ Did("UserJoined", p)
  /\ ServerTalks
  /\ timers' = IF UserJoinedGate /\ NotOwnId(p) THEN timers \cup {p} ELSE timers
  /\ UNCHANGED << peersRef, participants, calls >>
  /\ UNCHANGED << lifeVars, mediaVars, admVars, remoteVars, sessionVars >>

\* socket 'room-participants' {participants}: schedule makeCall for each
\* after 2000 ms.
RoomParticipantsGate ==
  IF variant = 1 THEN connectionEstablished ELSE TRUE

RoomParticipants(S) ==
  /\ Did("RoomParticipants", "-")
  /\ ServerTalks
  /\ timers' = IF RoomParticipantsGate
                 THEN timers \cup {p \in S : NotOwnId(p)}
                 ELSE timers
  /\ UNCHANGED << peersRef, participants, calls >>
  /\ UNCHANGED << lifeVars, mediaVars, admVars, remoteVars, sessionVars >>

\* A scheduled makeCall(p) runs.
TimerFires(p) ==
  /\ Did("TimerFires", p)
  /\ p \in timers
  /\ CanCall(p) => Len(calls) < MaxCalls
  /\ timers' = timers \ {p}
  /\ makeCall(p)
  /\ UNCHANGED participants
  /\ UNCHANGED << lifeVars, mediaVars, admVars, remoteVars, sessionVars >>

\* peer 'call': an inbound call is answered with the current stream and
\* registered under the caller's id, whatever the registry held.
PeerCall(c) ==
  /\ Did("PeerCall", calls[c].peer)
  /\ peer = "open"
  /\ calls[c].dir = "in" /\ calls[c].loc = "none" /\ calls[c].rem = "pending"
  /\ calls' = [calls EXCEPT ![c].loc = "open",
                            ![c].sv = SenderFor(streamRef, "video"),
                            ![c].sa = SenderFor(streamRef, "audio")]
  /\ peersRef' = [peersRef EXCEPT ![calls[c].peer] = c]
  /\ UNCHANGED << participants, timers >>
  /\ UNCHANGED << lifeVars, mediaVars, admVars, remoteVars, sessionVars >>

\* The ANSWER of an outbound call arrives: the call is open at self.
CallAnswered(c) ==
  /\ Did("CallAnswered", calls[c].peer)
  /\ calls[c].dir = "out" /\ calls[c].loc = "pending" /\ calls[c].rem = "open"
  /\ calls' = [calls EXCEPT ![c].loc = "open"]
  /\ UNCHANGED << peersRef, participants, timers >>
  /\ UNCHANGED << lifeVars, mediaVars, admVars, remoteVars, sessionVars >>

\* The name the 'stream' handler passes to addParticipant: makeCall passes the
\* username of the roster event, the 'call' handler passes none.
NameGiven(c) == IF calls[c].dir = "out" THEN "known" ELSE "Unknown"

\* call 'stream': the remote stream of an open call arrives (PeerJS emits it
\* for every track the remote added).
CallStream(c) ==
  /\ Did("CallStream", calls[c].peer)
  /\ calls[c].loc = "open"
  /\ participants' =
       SetState(addParticipant(participants, calls[c].peer, c, NameGiven(c)),
                participants)
  /\ UNCHANGED << peersRef, calls, timers >>
  /\ UNCHANGED << lifeVars, mediaVars, admVars, remoteVars, sessionVars >>

\* call 'close' of an open call (the remote hung up, the link was lost).
CallClose(c) ==
  /\ Did("CallClose", calls[c].peer)
  /\ calls[c].loc = "open"
  /\ calls' = closeAll({c})
  /\ peersRef' = removeFromRegistry(peersRef, {calls[c].peer})
  /\ participants' =
       SetState(removeFromParticipants(participants, {calls[c].peer}),
                participants)
  /\ UNCHANGED timers
  /\ UNCHANGED << lifeVars, mediaVars, admVars, remoteVars, sessionVars >>

\* Which 'error' handlers evict: all of variant 1 and the outbound one of
\* variant 2; the inbound handler of variant 2 only logs.
ErrorEvicts(c) == variant = 1 \/ calls[c].dir = "out"

\* call 'error' on an open call; the handler does not close the call.
CallError(c) ==
  /\ Did("CallError", calls[c].peer)
  /\ calls[c].loc = "open"
  /\ IF ErrorEvicts(c)
       THEN /\ peersRef' = removeFromRegistry(peersRef, {calls[c].peer})
            /\ participants' =
                 SetState(removeFromParticipants(participants, {calls[c].peer}),
                          participants)
       ELSE UNCHANGED << peersRef, participants >>
  /\ UNCHANGED << calls, timers >>
  /\ UNCHANGED << lifeVars, mediaVars, admVars, remoteVars, sessionVars >>

\* socket 'user-toggle-audio' / 'user-toggle-video' {peerId, enabled}: the
\* entry under peerId is spread and the flag written, whether or not the map
\* has the key.
UserToggle(p, flag, enabled) ==
  /\ Did(IF flag = "audio" THEN "UserToggleAudio" ELSE "UserToggleVideo", p)
  /\ ServerTalks
  /\ participants' =
       SetState([participants EXCEPT
                   ![p] = IF flag = "audio"
                            THEN [@ EXCEPT !.there = TRUE,
                                           !.audioEnabled = enabled]
                            ELSE [@ EXCEPT !.there = TRUE,
                                           !.videoEnabled = enabled]],
                participants)
  /\ UNCHANGED << peersRef, calls, timers >>
  /\ UNCHANGED << lifeVars, mediaVars, admVars, remoteVars, sessionVars >>

\* socket 'user-left' {peerId}: close and delete the registered call, delete
\* the participant.
UserLeft(p) ==
  /\ Did("UserLeft", p)
  /\ ServerTalks
  /\ calls' = closeAll({peersRef[p]} \ {0})
  /\ peersRef' = removeFromRegistry(peersRef, {p})
  /\ participants' =
       SetState(removeFromParticipants(participants, {p}), participants)
  /\ UNCHANGED timers
  /\ UNCHANGED << lifeVars, mediaVars, admVars, remoteVars, sessionVars >>

\* socket 'user-removed' {peerId}: the same steps as 'user-left'.
UserRemoved(p) ==
  /\ Did("UserRemoved", p)
  /\ ServerTalks
  /\ calls' = closeAll({peersRef[p]} \ {0})
  /\ peersRef' = removeFromRegistry(peersRef, {p})
  /\ participants' =
       SetState(removeFromParticipants(participants, {p}), participants)
  /\ UNCHANGED timers
  /\ UNCHANGED << lifeVars, mediaVars, admVars, remoteVars, sessionVars >>

----------------------------------------------------------------------------
\* The remote participants, running the same mesh code towards self.

\* Remote r's scheduled makeCall(self) runs, some time after a roster event
\* named self to it, with the same registry check.
RemoteMakeCall(r) ==
  /\ Did("RemoteMakeCall", r)
  /\ ServerTalks
  /\ RegistryFree(rReg, r)
  /\ Len(calls) < MaxCalls
  /\ calls' = Append(calls, NewCall(r, "in", {}))
  /\ rReg' = [rReg EXCEPT ![r] = Len(calls) + 1]
  /\ UNCHANGED << peersRef, participants, timers >>
  /\ UNCHANGED << lifeVars, mediaVars, admVars, sessionVars >>

\* Remote's peer 'call': self's outbound call is answered and registered by
\* the remote, whatever its registry held.
RemoteCall(c) ==
  /\ Did("RemoteCall", calls[c].peer)
  /\ calls[c].peer \in Remotes
  /\ calls[c].dir = "out" /\ calls[c].rem = "none" /\ calls[c].loc = "pending"
  /\ calls' = [calls EXCEPT ![c].rem = "open"]
  /\ rReg' = [rReg EXCEPT ![calls[c].peer] = c]
  /\ UNCHANGED << peersRef, participants, timers >>
  /\ UNCHANGED << lifeVars, mediaVars, admVars, sessionVars >>

\* The ANSWER of an inbound call reaches the remote: the call is open there.
RemoteAnswered(c) ==
  /\ Did("RemoteAnswered", calls[c].peer)
  /\ calls[c].dir = "in" /\ calls[c].rem = "pending" /\ calls[c].loc = "open"
  /\ calls' = [calls EXCEPT ![c].rem = "open"]
  /\ UNCHANGED << rReg, peersRef, participants, timers >>
  /\ UNCHANGED << lifeVars, mediaVars, admVars, sessionVars >>

\* Remote's call 'close': its removeParticipant(self) deletes its registry
\* entry for self.
RemoteCallClose(c) ==
  /\ Did("RemoteCallClose", calls[c].peer)
  /\ calls[c].rem = "open"
  /\ calls' = [calls EXCEPT ![c].rem = "closed"]
  /\ rReg' = [rReg EXCEPT ![calls[c].peer] = 0]
  /\ UNCHANGED << peersRef, participants, timers >>
  /\ UNCHANGED << lifeVars, mediaVars, admVars, sessionVars >>

----------------------------------------------------------------------------
\* Local media.

\* The calls toggleVideo walks: Object.values(peersRef.current) whose
\* peerConnection is set (close() clears it).
RegisteredConnections ==
  {c \in CallIds : (\E p \in PeerIds : peersRef[p] = c) /\ SelfLive(c)}

\* What toggleVideo does to one sender when video starts: a sender with a
\* track gets the new track of its kind, a sender without a track is skipped.
ReplaceOnStart(slot, g) == IF slot > NullTrack THEN g ELSE slot

\* What toggleVideo does to the video sender when video stops: variant 2
\* calls replaceTrack(null) on a sender with a track, variant 1 leaves it.
ReplaceOnStop(slot) ==
  IF variant = 2 /\ slot > NullTrack THEN NullTrack ELSE slot

\* toggleVideo with videoEnabled false: getUserMedia is requested.  The
\* controls are rendered only in the approved room.
toggleVideoStart ==
  /\ Did("toggleVideoStart", "-")
  /\ mounted /\ roomState = "approved"
  /\ ~videoEnabled
  /\ nStreams + toggling < MaxStreams
  /\ toggling' = toggling + 1
  /\ UNCHANGED << streamRef, liveTracks, nStreams, videoEnabled >>
  /\ UNCHANGED << lifeVars, admVars, meshVars, remoteVars, sessionVars >>

\* getUserMedia of toggleVideo resolves: the old stream is stopped, the new
\* one stored, and the senders of the registered calls are updated;
\* toggle-video is emitted with enabled: !videoEnabled of the render that
\* made the call, which is true.
toggleVideoResolved ==
  /\ Did("toggleVideoResolved", "true")
  /\ toggling > 0
  /\ nStreams < MaxStreams
  /\ toggling' = toggling - 1
  /\ nStreams' = nStreams + 1
  /\ liveTracks' = (liveTracks \ streamRef) \cup StreamOf(nStreams + 1)
  /\ streamRef' = StreamOf(nStreams + 1)
  /\ calls' = [c \in DOMAIN calls |->
                 IF c \in RegisteredConnections
                   THEN [calls[c] EXCEPT
                           !.sv = ReplaceOnStart(calls[c].sv, nStreams + 1),
                           !.sa = ReplaceOnStart(calls[c].sa, nStreams + 1)]
                   ELSE calls[c]]
  /\ videoEnabled' = SetState(TRUE, videoEnabled)
  /\ UNCHANGED << peersRef, participants, timers >>
  /\ UNCHANGED << lifeVars, admVars, remoteVars, sessionVars >>

\* A failed toggleVideo that has given up the old stream.
toggleVideoRejectedDropsStream ==
  /\ Did("toggleVideoRejected", "-")
  /\ toggling > 0
  /\ toggling' = toggling - 1
  /\ liveTracks' = liveTracks \ streamRef
  /\ UNCHANGED << streamRef, nStreams, videoEnabled >>
  /\ UNCHANGED << lifeVars, admVars, meshVars, remoteVars, sessionVars >>

\* getUserMedia of toggleVideo rejects: the catch block reports and returns
\* before the emit of toggle-video.
toggleVideoRejected ==
  /\ Did("toggleVideoRejected", "-")
  /\ toggling > 0
  /\ toggling' = toggling - 1
  /\ UNCHANGED << streamRef, liveTracks, nStreams, videoEnabled >>
  /\ UNCHANGED << lifeVars, admVars, meshVars, remoteVars, sessionVars >>

\* A toggleVideo that stops the video tracks and keeps the stream object.
toggleVideoStopKeepsStream ==
  /\ Did("toggleVideoStop", "false")
  /\ mounted /\ roomState = "approved"
  /\ videoEnabled
  /\ liveTracks' = liveTracks \ VideoTracks(streamRef)
  /\ videoEnabled' = FALSE
  /\ UNCHANGED << streamRef, calls >>
  /\ UNCHANGED << nStreams, toggling, peersRef, participants, timers >>
  /\ UNCHANGED << lifeVars, admVars, remoteVars, sessionVars >>

\* toggleVideo with videoEnabled true: the video tracks are stopped and an
\* audio-only stream replaces the current one; toggle-video is emitted with
\* enabled: !videoEnabled, which is false.
toggleVideoStop ==
  /\ Did("toggleVideoStop", "false")
  /\ mounted /\ roomState = "approved"
  /\ videoEnabled
  /\ IF streamRef # {}
       THEN /\ liveTracks' = liveTracks \ VideoTracks(streamRef)
            /\ streamRef' = AudioTracks(streamRef)
            /\ calls' = [c \in DOMAIN calls |->
                           IF c \in RegisteredConnections
                             THEN [calls[c] EXCEPT
                                     !.sv = ReplaceOnStop(calls[c].sv)]
                             ELSE calls[c]]
            /\ videoEnabled' = FALSE
       ELSE UNCHANGED << liveTracks, streamRef, calls, videoEnabled >>
  /\ UNCHANGED << nStreams, toggling, peersRef, participants, timers >>
  /\ UNCHANGED << lifeVars, admVars, remoteVars, sessionVars >>

\* The value toggleAudio gives to track.enabled, to audioEnabled and to the
\* toggle-audio event: !audioEnabled.
NewAudioEnabled == ~audioEnabled

\* A toggleAudio that drops the audio tracks from the stream instead of
\* disabling them.
toggleAudioDropsTracks ==
  /\ Did("toggleAudio", IF NewAudioEnabled THEN "true" ELSE "false")
  /\ mounted /\ roomState = "approved"
  /\ streamRef # {}
  /\ streamRef' = VideoTracks(streamRef)
  /\ audioEnabled' = NewAudioEnabled
  /\ UNCHANGED << liveTracks, nStreams, videoEnabled, toggling >>
  /\ UNCHANGED << waitingParticipants, muted, exitVars >>
  /\ UNCHANGED << lifeVars, admVars, meshVars, remoteVars >>

\* toggleAudio, with a stream: every audio track of the current stream gets
\* enabled = !audioEnabled, audioEnabled is set to it and toggle-audio is
\* emitted with it.  The controls are rendered only in the approved room,
\* where socketRef.current is set.
toggleAudio ==
  /\ Did("toggleAudio", IF NewAudioEnabled THEN "true" ELSE "false")
  /\ mounted /\ roomState = "approved"
  /\ streamRef # {}
  /\ muted' = IF NewAudioEnabled
                THEN muted \ AudioTracks(streamRef)
                ELSE muted \cup AudioTracks(streamRef)
  /\ audioEnabled' = NewAudioEnabled
  /\ UNCHANGED << waitingParticipants, exitVars >>
  /\ UNCHANGED << lifeVars, mediaVars, admVars, meshVars, remoteVars >>

----------------------------------------------------------------------------
\* Teardown.

\* The calls cleanup closes through the registry, then the connections
\* peer.destroy() closes (every connection the Peer still holds).
RegistryCalls == {peersRef[p] : p \in PeerIds} \ {0}
PeerConnections == {c \in CallIds : SelfLive(c)}
DestroyedCalls == RegistryCalls \cup PeerConnections

\* The body of cleanup(): the tracks of the current stream are stopped, the
\* registered calls closed, the Peer destroyed and the socket disconnected,
\* each if the ref holds one.
Teardown ==
  /\ connectionEstablished' = FALSE
  /\ liveTracks' = liveTracks \ streamRef
  /\ calls' = closeAll(DestroyedCalls)
  /\ peersRef' = removeFromRegistry(peersRef, ClosePeers(DestroyedCalls))
  /\ participants' =
       removeFromParticipants(participants, ClosePeers(DestroyedCalls))
  /\ peer' = IF peer = "none" THEN peer ELSE "destroyed"
  /\ socket' = IF socket = "none" THEN socket ELSE "closed"

\* The statements of cleanup() in the order they run.  The first variant
\* clears connectionEstablished.current before anything else; the second
\* variant has no such flag.
TeardownSteps ==
  IF variant = 1
    THEN << "flags", "tracks", "calls", "transport", "channel" >>
    ELSE << "tracks", "calls", "transport", "channel" >>

\* cleanup(), run by leaveRoom and by the effect's cleanup on unmount.
cleanup ==
  /\ Did("cleanup", "-")
  /\ mounted
  /\ initState \in {"media", "done", "failed"}
  /\ mounted' = FALSE
  /\ Teardown
  /\ UNCHANGED << variant, username, initState, joined, peerId, startVars >>
  /\ UNCHANGED << streamRef, nStreams, videoEnabled, toggling >>
  /\ UNCHANGED << roomState, isHost, timers, remoteVars, sessionVars >>

\* socket 'room-error' {message}: a notification, and navigate("/") after
\* 3000 ms.
RoomError ==
  /\ Did("RoomError", "-")
  /\ ServerTalks
  /\ navTimer' = TRUE
  /\ UNCHANGED << uiVars, attempts >>
  /\ UNCHANGED << lifeVars, mediaVars, admVars, meshVars, remoteVars >>

\* A scheduled navigate("/") runs: the router leaves the room route, a mounted
\* Room unmounts and the effect's cleanup runs cleanup().
NavigateFires ==
  /\ Did("NavigateFires", "-")
  /\ navTimer
  /\ navTimer' = FALSE
  /\ mounted' = FALSE
  /\ IF mounted
       THEN Teardown
       ELSE UNCHANGED << connectionEstablished, liveTracks, calls, peersRef,
                         participants, peer, socket >>
  /\ UNCHANGED << variant, username, initState, joined, peerId, startVars >>
  /\ UNCHANGED << streamRef, nStreams, videoEnabled, toggling >>
  /\ UNCHANGED << roomState, isHost, timers, remoteVars, uiVars, attempts >>

\* peer 'error'.  A fatal error has made the Peer destroy itself, closing its
\* connections; variant 2 schedules a check after 3000 ms, variant 1 reports.
PeerError(fatal) ==
  /\ Did("PeerError", IF fatal THEN "true" ELSE "false")
  /\ PeerUp
  /\ peerRetry' = IF variant = 2 THEN TRUE ELSE peerRetry
  /\ IF fatal
       THEN /\ peer' = "destroyed"
            /\ calls' = closeAll(PeerConnections)
            /\ peersRef' =
                 removeFromRegistry(peersRef, ClosePeers(PeerConnections))
            /\ participants' =
                 SetState(removeFromParticipants(participants,
                                                 ClosePeers(PeerConnections)),
                          participants)
       ELSE UNCHANGED << peer, calls, peersRef, participants >>
  /\ UNCHANGED << variant, username, mounted, initState, socket, joined >>
  /\ UNCHANGED << peerId, inits, lostSockets, lostPeers, timers >>
  /\ UNCHANGED << mediaVars, admVars, remoteVars, sessionVars >>

\* The timer of the peer 'error' handler fires: initializePeer creates a new
\* Peer if the one in peerRef is destroyed.
PeerRetryFires ==
  /\ Did("PeerRetryFires", "-")
  /\ peerRetry
  /\ peerRetry' = FALSE
  /\ peer' = IF peer = "destroyed" THEN "pending" ELSE peer
  /\ UNCHANGED << variant, username, mounted, initState, socket, joined >>
  /\ UNCHANGED << peerId, inits, lostSockets, lostPeers >>
  /\ UNCHANGED << mediaVars, admVars, meshVars, remoteVars, sessionVars >>

\* peer 'disconnected' (the link to the PeerJS server was lost): reconnect()
\* unless the Peer is destroyed; the Peer will report 'open' again.
PeerDisconnected ==
  /\ Did("PeerDisconnected", "-")
  /\ peer = "open"
  /\ peer' = "pending"
  /\ UNCHANGED << variant, username, mounted, initState, socket, joined >>
  /\ UNCHANGED << peerId, startVars >>
  /\ UNCHANGED << mediaVars, admVars, meshVars, remoteVars, sessionVars >>

\* The effect runs again because a dependency (the roomId of the route)
\* changed while the component stays mounted: React runs the previous
\* effect's cleanup(), then the effect, which starts initializeConnection.
EffectRerun ==
  /\ Did("EffectRerun", "-")
  /\ mounted
  /\ initState \in {"media", "done", "failed"}
  /\ nStreams + inits + toggling < MaxStreams
  /\ Teardown
  /\ inits' = inits + 1
  /\ attempts' = 1
  /\ initState' = "media"
  /\ UNCHANGED << variant, username, mounted, joined, peerId >>
  /\ UNCHANGED << lostSockets, lostPeers, peerRetry >>
  /\ UNCHANGED << streamRef, nStreams, videoEnabled, toggling >>
  /\ UNCHANGED << roomState, isHost, timers, remoteVars, uiVars, navTimer >>

----------------------------------------------------------------------------
\* Next-state relations.  P is the set of remote participants that take part.

StartStep ==
  \/ UseEffect
  \/ InitMediaResolved
  \/ InitMediaRejected
  \/ SocketConnect
  \/ PeerOpen

AdmissionStep(H) ==
  \E st \in Statuses, h \in H : AdmissionStatus(st, h)

RosterStep(P) ==
  \/ \E p \in P : UserJoined(p)
  \/ \E S \in SUBSET P : RoomParticipants(S)
  \/ \E p \in P : TimerFires(p)

OutboundStep ==
  \/ \E c \in CallIds : RemoteCall(c)
  \/ \E c \in CallIds : CallAnswered(c)
  \/ \E c \in CallIds : CallStream(c)

InboundStep(P) ==
  \/ \E r \in P : RemoteMakeCall(r)
  \/ \E c \in CallIds : PeerCall(c)
  \/ \E c \in CallIds : RemoteAnswered(c)

FailureStep(P) ==
  \/ \E c \in CallIds : CallClose(c)
  \/ \E c \in CallIds : CallError(c)
  \/ \E c \in CallIds : RemoteCallClose(c)
  \/ \E p \in P : UserLeft(p)
  \/ \E p \in P : UserRemoved(p)

PeerFailureStep ==
  \/ \E fatal \in BOOLEAN : PeerError(fatal)
  \/ PeerRetryFires
  \/ PeerDisconnected

ToggleStep ==
  \/ toggleVideoStart
  \/ toggleVideoResolved
  \/ toggleVideoRejected
  \/ toggleVideoStop

RemoteToggleStep(P) ==
  \E p \in P, flag \in {"audio", "video"}, enabled \in {"true", "false"} :
    UserToggle(p, flag, enabled)

HostControlStep == \E fn \in HostControls : HostControl(fn)

WaitingStep == \E waiting \in SUBSET Waiters : WaitingRoomUpdate(waiting)

ExitStep ==
  \/ RoomError
  \/ NavigateFires

HostValues == {"true", "false", "absent"}
Pair == {"p1"}

\* Everything, with every remote participant.
Next ==
  \/ StartStep
  \/ AdmissionStep(HostValues)
  \/ \E h \in BOOLEAN : HostTransferred(h)
  \/ RosterStep(Remotes)
  \/ OutboundStep
  \/ InboundStep(Remotes)
  \/ FailureStep(Remotes)
  \/ RemoteToggleStep(Remotes)
  \/ ToggleStep
  \/ toggleAudio
  \/ HostControlStep
  \/ WaitingStep
  \/ ExitStep
  \/ PeerFailureStep
  \/ EffectRerun
  \/ cleanup

Spec == Init /\ [][Next]_vars

\* Admission: every admission and host event, the roster events and the
\* outbound calls they lead to, with one remote participant; the user never
\* toggles video and no call fails.
NextAdmission ==
  \/ StartStep
  \/ AdmissionStep(HostValues)
  \/ \E h \in BOOLEAN : HostTransferred(h)
  \/ RosterStep(Pair)
  \/ OutboundStep
  \/ cleanup

AdmissionSpec == Init /\ [][NextAdmission]_vars

\* Admission under the scheduling the browser guarantees: a timer that was set
\* fires.  No event of the server or of a remote participant is promised, and
\* the user is not bound to leave.
PendingSpec ==
  Init /\ [][NextAdmission]_vars /\ WF_vars(\E p \in Pair : TimerFires(p))

\* Two-party join: self and one remote participant exchange roster events and
\* call each other; no call fails and nobody leaves.
NextJoin ==
  \/ StartStep
  \/ AdmissionStep({"absent"})
  \/ RosterStep(Pair)
  \/ OutboundStep
  \/ InboundStep(Pair)

JoinSpec == Init /\ [][NextJoin]_vars

\* Calls: the two-party join with teardown, so that scheduled calls also run
\* after the Peer was destroyed; no call fails and nobody else leaves.
NextCalls ==
  \/ StartStep
  \/ AdmissionStep({"absent"})
  \/ RosterStep(Pair)
  \/ OutboundStep
  \/ InboundStep(Pair)
  \/ cleanup

CallsSpec == Init /\ [][NextCalls]_vars

\* Host: admission, host transfers, waiting-room updates and host-control
\* requests, with the roster
\* events and outbound calls of one remote participant.
NextHost ==
  \/ StartStep
  \/ AdmissionStep(HostValues)
  \/ \E h \in BOOLEAN : HostTransferred(h)
  \/ HostControlStep
  \/ WaitingStep
  \/ RosterStep(Pair)
  \/ OutboundStep
  \/ cleanup

HostSpec == Init /\ [][NextHost]_vars

\* Restart: the mount effect and its re-runs, with the admission and roster
\* events of one remote participant.  A socket or a Peer that was lost from
\* its ref is counted; what it goes on doing is left out.
NextRestart ==
  \/ StartStep
  \/ EffectRerun
  \/ AdmissionStep({"absent"})
  \/ RosterStep(Pair)
  \/ OutboundStep
  \/ cleanup

RestartSpec == Init /\ [][NextRestart]_vars

\* Recovery: errors and disconnections of the Peer, around the admission and
\* roster events of one remote participant and the teardown.
NextRecovery ==
  \/ StartStep
  \/ AdmissionStep({"absent"})
  \/ RosterStep(Pair)
  \/ OutboundStep
  \/ PeerFailureStep
  \/ cleanup

RecoverySpec == Init /\ [][NextRecovery]_vars

\* Roster: roster events that name one remote participant or self's own
\* transport identity, and the calls they lead to.  What the PeerJS server does
\* with an offer addressed to its own sender is left out: such a call stays
\* pending.
NextRoster ==
  \/ StartStep
  \/ AdmissionStep({"absent"})
  \/ RosterStep(Pair \cup {Self})
  \/ OutboundStep
  \/ InboundStep(Pair)
  \/ cleanup

RosterSpec == Init /\ [][NextRoster]_vars

\* Mesh: the calls between self and one remote participant, with failures,
\* departures and teardown; the user never toggles video.
NextMesh ==
  \/ StartStep
  \/ AdmissionStep({"absent"})
  \/ RosterStep(Pair)
  \/ OutboundStep
  \/ InboundStep(Pair)
  \/ FailureStep(Pair)
  \/ cleanup

MeshSpec == Init /\ [][NextMesh]_vars

\* Fatal: a session with one remote participant that receives room-error
\* events and is sent home by the timers they (and a denial, and a failed
\* start) set.
NextFatal ==
  \/ StartStep
  \/ AdmissionStep({"absent"})
  \/ RosterStep(Pair)
  \/ OutboundStep
  \/ ExitStep

FatalSpec == Init /\ [][NextFatal]_vars

\* Audio: an approved session toggling audio and video while it calls one
\* remote participant.
NextAudio ==
  \/ StartStep
  \/ AdmissionStatus("approved", "absent")
  \/ RosterStep(Pair)
  \/ OutboundStep
  \/ ToggleStep
  \/ toggleAudio

AudioSpec == Init /\ [][NextAudio]_vars

\* Participants: an approved session and one remote participant that calls,
\* is called, toggles its audio and video, and leaves.
NextParticipants ==
  \/ StartStep
  \/ AdmissionStatus("approved", "absent")
  \/ RosterStep(Pair)
  \/ OutboundStep
  \/ InboundStep(Pair)
  \/ RemoteToggleStep(Pair)
  \/ \E p \in Pair : UserLeft(p)

ParticipantsSpec == Init /\ [][NextParticipants]_vars

\* A call 'close' or 'error' event.
CallFailureStep ==
  \/ \E c \in CallIds : CallClose(c)
  \/ \E c \in CallIds : CallError(c)

\* Isolation: an approved session in a room with both remote participants,
\* which it calls after room-participants and one of which also calls it; the
\* calls close or fail one by one, nobody leaves and the session is not ended
\* by the user.
NextIsolation ==
  \/ StartStep
  \/ AdmissionStatus("approved", "absent")
  \/ RoomParticipants(Remotes)
  \/ \E p \in Remotes : TimerFires(p)
  \/ OutboundStep
  \/ InboundStep(Pair)
  \/ CallFailureStep

IsolationSpec == Init /\ [][NextIsolation]_vars

\* Media: an approved session toggling video while calls with one remote
\* participant are placed and answered.
NextMedia ==
  \/ StartStep
  \/ AdmissionStatus("approved", "absent")
  \/ RosterStep(Pair)
  \/ OutboundStep
  \/ InboundStep(Pair)
  \/ ToggleStep
  \/ cleanup

MediaSpec == Init /\ [][NextMedia]_vars

TypeOK ==
  /\ variant \in Variants
  /\ roomState \in {"connecting", "waiting", "approved", "denied"}
  /\ Len(calls) <= MaxCalls
  /\ nStreams <= MaxStreams
  /\ last.arg \in PeerIds \cup Statuses
                  \cup {"true", "false", "-", "emit", "refused", "empty",
                        "waiting"}
  /\ waitingParticipants \subseteq Waiters
  /\ audioEnabled \in BOOLEAN
  /\ navTimer \in BOOLEAN
  /\ attempts \in {0, 1}

----------------------------------------------------------------------------
\* Claims.

\* The calls with p that self holds and has not closed.
LiveCallsWith(p) == {c \in CallIds : calls[c].peer = p /\ SelfLive(c)}

\* The connections with p that are open at both ends.
OpenConnections(p) ==
  {c \in CallIds :
     calls[c].peer = p /\ calls[c].loc = "open" /\ calls[c].rem = "open"}

\* C1: in every reachable state self holds, for each remote peer id, at most
\* one live call and at most one participants entry; an inbound call arriving
\* while an outbound call is registered never leaves two live calls.
C1_OneLiveCallPerPeer ==
  \A p \in Remotes : Cardinality(LiveCallsWith(p)) <= 1

\* C2: in the two-party join, whatever the interleaving of the two delayed
\* outbound calls and their arrivals, one call connection results between
\* self and the other party, not two.
C2_OneConnectionBetweenTwo == Cardinality(OpenConnections("p1")) <= 1

\* Every handshake is over and no scheduled call is pending.
Settled ==
  /\ timers = {}
  /\ calls # << >>
  /\ \A c \in CallIds : calls[c].loc = "open" /\ calls[c].rem = "open"

\* C3: without call failures, once the roster events have been exchanged and
\* the calls have settled, self holds exactly one open call per other
\* participant and no duplicate for any peer id.
C3_MeshComplete ==
  Settled => \A p \in Pair : Cardinality(LiveCallsWith(p)) = 1

\* The step places an outbound call.
OutboundPlaced ==
  /\ Len(calls') = Len(calls) + 1
  /\ calls'[Len(calls')].dir = "out"

\* The session is established: the connectionEstablished flag of variant 1;
\* variant 2 has no flag, its admission state is what says it was approved.
Established ==
  IF variant = 1 THEN connectionEstablished ELSE roomState = "approved"

\* C4: no outbound call is placed while the session is not established, in
\* either variant of the roster handlers.
C4_NoCallBeforeEstablished == [][OutboundPlaced => Established]_vars

\* The step answers an inbound call (and enters it into the registry).
InboundAnswered ==
  \E c \in CallIds :
    calls[c].dir = "in" /\ calls[c].loc = "none" /\ calls'[c].loc = "open"

\* C5: no inbound call is answered and registered while the admission state
\* is connecting, waiting or denied.
C5_NoAnswerBeforeApproval == [][InboundAnswered => roomState = "approved"]_vars

\* C6: the admission state never moves from denied to approved nor from
\* approved to denied; approved is entered only from connecting or waiting.
C6_TerminalStatesMonotonic ==
  [][/\ ~(roomState = "denied" /\ roomState' = "approved")
     /\ ~(roomState = "approved" /\ roomState' = "denied")]_vars

\* C7: admission-status{approved} received by the mounted component in
\* connecting or waiting makes the admission state approved, sets isHost to
\* the event's value (false when absent) and, in variant 1, marks the session
\* established; admission-status{waiting} received in connecting moves to
\* waiting and leaves established false and isHost unchanged.
C7_AdmissionStatusEffect ==
  [][\A h \in HostValues :
       /\ ( /\ mounted
            /\ roomState \in {"connecting", "waiting"}
            /\ AdmissionStatus("approved", h) )
          => /\ roomState' = "approved"
             /\ isHost' = (h = "true")
             /\ variant = 1 => connectionEstablished'
       /\ ( /\ mounted
            /\ roomState = "connecting"
            /\ AdmissionStatus("waiting", h) )
          => /\ roomState' = "waiting"
             /\ ~connectionEstablished'
             /\ isHost' = isHost]_vars

\* An approval naming self host has been handled.
C7_ApprovedAsHost ==
  /\ mounted
  /\ last = [op |-> "AdmissionStatus", arg |-> "approved"]
  /\ variant = 1
  /\ roomState = "approved"
  /\ isHost
  /\ connectionEstablished

\* The step is the teardown of a started session.
TornDown == mounted /\ ~mounted' /\ initState # "idle"

\* C8: after leave/unmount every local track is stopped, every call is
\* closed and the registry holds no entry.
C8_TeardownComplete ==
  [][TornDown =>
       /\ liveTracks' = {}
       /\ \A c \in DOMAIN calls' : calls'[c].loc \notin {"pending", "open"}
       /\ \A p \in PeerIds : peersRef'[p] = 0]_vars

\* The handler that ran last is the 'close' or the 'error' handler of a call of
\* the mounted component.
CallEnded == mounted /\ last.op \in {"CallClose", "CallError"}

\* C9: after a close or an error event of a call, outbound or inbound, the
\* registry entry and the participants entry of its peer id are both gone;
\* neither is left behind without the other.
C9_EvictedTogether ==
  CallEnded => peersRef[last.arg] = 0 /\ ~participants[last.arg].there

\* The step is toggleVideo storing the re-acquired stream.
VideoResumed == toggling' = toggling - 1 /\ nStreams' = nStreams + 1

\* C10: when video is switched on again, the video sender of every registered
\* connection carries the video track of the new stream; none keeps a stopped
\* or a null track.
C10_EverySenderReplaced ==
  [][VideoResumed =>
       \A p \in Remotes :
         (peersRef'[p] # 0 /\ calls'[peersRef'[p]].loc \in {"pending", "open"}
            /\ calls'[peersRef'[p]].sv # NoSender)
           => calls'[peersRef'[p]].sv = nStreams']_vars

\* The step places exactly one outbound call to p that carries the current
\* local stream and registers it under p, leaving the other entries alone.
PlacesOneCall(p) ==
  /\ Len(calls') = Len(calls) + 1
  /\ \A c \in CallIds : calls'[c] = calls[c]
  /\ calls'[Len(calls')].peer = p
  /\ calls'[Len(calls')].dir = "out"
  /\ calls'[Len(calls')].sv = SenderFor(streamRef, "video")
  /\ calls'[Len(calls')].sa = SenderFor(streamRef, "audio")
  /\ peersRef' = [peersRef EXCEPT ![p] = Len(calls')]

\* C11: makeCall(p) places no call and leaves the registry unchanged when the
\* registry holds a connection for p (outbound or inbound), when there is no
\* local stream or when the Peer is not open; otherwise it places exactly one
\* outbound call carrying the current local stream, registered under p.
C11_MakeCallEffect ==
  [][\A p \in Remotes :
       TimerFires(p) =>
         IF peersRef[p] # 0 \/ streamRef = {} \/ peer # "open"
           THEN calls' = calls /\ peersRef' = peersRef
           ELSE PlacesOneCall(p)]_vars

\* makeCall(p1) has just returned early on an answered inbound call that
\* holds the registry entry.
C11_SkippedOnInbound ==
  /\ last = [op |-> "TimerFires", arg |-> "p1"]
  /\ peersRef["p1"] # 0
  /\ calls[peersRef["p1"]].dir = "in"
  /\ Cardinality({c \in CallIds : calls[c].peer = "p1"}) = 1

\* C12: an inbound call is answered, and entered into the registry, only at a
\* moment when a local stream exists, and it is answered with that stream; no
\* inbound call is answered or registered without one.
C12_AnsweredWithStream ==
  [][\A c \in CallIds :
       PeerCall(c) =>
         /\ streamRef # {}
         /\ calls'[c].sa = SenderFor(streamRef, "audio")
         /\ calls'[c].sa # NoSender]_vars

\* An inbound call has just been answered and registered while video was off,
\* with the audio-only stream.
C12_AnsweredAudioOnly ==
  /\ last = [op |-> "PeerCall", arg |-> "p1"]
  /\ ~videoEnabled
  /\ peersRef["p1"] # 0
  /\ calls[peersRef["p1"]].loc = "open"
  /\ calls[peersRef["p1"]].sv = NoSender
  /\ calls[peersRef["p1"]].sa # NoSender

\* C13: whatever peer id a 'user-joined' event or a 'room-participants'
\* snapshot names, self's own included, no outbound call is placed to self's
\* own peer id nor to a peer id the registry already holds.
C13_NeverCallsSelfOrConnected ==
  [][OutboundPlaced =>
       /\ calls'[Len(calls')].peer # Self
       /\ peersRef[calls'[Len(calls')].peer] = 0]_vars

\* C14: when leave/unmount has happened while the media acquisition was in
\* flight, its later result does not continue the session: no socket and no
\* Peer is created, no join-room is emitted and no acquired track stays live.
C14_CancelledStartStops ==
  ~mounted =>
    /\ socket \notin {"connecting", "connected"}
    /\ peer \notin {"pending", "open"}
    /\ liveTracks = {}
    /\ last.op # "PeerOpen"

\* C15: a start request that arrives while an initialization is in progress
\* starts nothing: at most one initialization runs at a time, and overlapping
\* starts never leave a second acquired stream, socket or Peer behind.
C15_OneInitialization ==
  /\ inits <= 1
  /\ lostSockets = 0
  /\ lostPeers = 0
  /\ liveTracks \subseteq streamRef

\* The number of socket instances that are up.
OpenChannels == lostSockets + (IF SocketUp THEN 1 ELSE 0)

\* C16: at most one socket instance is up at any time: the socket held before
\* is closed by the time the open sequence creates a new one.
C16_OneChannel == OpenChannels <= 1

\* The user has left: teardown has run, no initialization is in flight, and
\* the socket and the Peer, if any were created, are closed and destroyed.
Left ==
  /\ ~mounted
  /\ inits = 0
  /\ socket \in {"none", "closed"}
  /\ peer \in {"none", "destroyed"}

\* C17: once the user has left, no later event or pending timer re-creates or
\* reconnects the socket or the Peer, and no join-room is emitted.
C17_NoResurrection ==
  [][Left => /\ socket' = socket
             /\ peer' = peer
             /\ joined' = joined]_vars

\* The step emits join-room, with the id the Peer has just been given.
JoinEmitted == PeerOpen /\ joined'

\* C18: join-room is emitted only when the Peer has its id and the socket is
\* connected, whichever of the two came first.
C18_JoinAfterBothReady ==
  [][JoinEmitted => peer' = "open" /\ socket = "connected"]_vars

\* The handler that ran last is a host-control function.
HostRequested == last.op \in HostControls

\* C19: an approve, deny or remove request issued while isHost is false (after
\* host-transferred{isHost: false}) emits nothing, and one issued while isHost
\* is true is forwarded, in either variant of the host-control functions.
C19_HostControlsFollowIsHost ==
  HostRequested => (last.arg = "emit" <=> isHost)

\* C20: a host-transferred event handled by the mounted component sets isHost
\* to the event's value and leaves the admission state, the established flag,
\* the registry and the participants map unchanged.
C20_HostTransferEffect ==
  [][\A h \in BOOLEAN :
       (mounted /\ HostTransferred(h))
         => /\ isHost' = h
            /\ UNCHANGED << roomState, connectionEstablished, peersRef,
                            participants >>]_vars

\* A transfer has just made self host while a call with p1 is registered and
\* shown.
C20_MadeHostInCall ==
  /\ mounted
  /\ last = [op |-> "HostTransferred", arg |-> "true"]
  /\ isHost
  /\ roomState = "approved"
  /\ peersRef["p1"] # 0
  /\ participants["p1"].there


\* C21: the local waiting roster is non-empty only while self is approved and
\* is the host: a waiting-room-update does not give a roster to a client that
\* is not approved or not the host, and a former host keeps none.
C21_WaitingRosterOnlyForHost ==
  waitingParticipants # {} => roomState = "approved" /\ isHost

\* The step is a call of one of the host-control functions.
HostControlCalled == \E fn \in HostControls : HostControl(fn)

\* C22: the admission state changes only in a step of the admission-status
\* handler, and a call of approveParticipant / denyParticipant (or of
\* removeParticipantHandler) leaves the admission state, isHost and the
\* waiting roster as they were.
C22_NeverSelfApproves ==
  [][/\ roomState' # roomState =>
          \E st \in Statuses, h \in HostValues : AdmissionStatus(st, h)
     /\ HostControlCalled =>
          UNCHANGED << roomState, isHost, waitingParticipants >>]_vars

\* A host with a person waiting has just emitted an approve request.
C22_HostApprovedWaiting ==
  /\ last = [op |-> "approveParticipant", arg |-> "emit"]
  /\ isHost /\ roomState = "approved"
  /\ waitingParticipants # {}

\* C23: media acquisition is given up (the start has failed) only after the
\* first getUserMedia call and two retries have been made, the last resort
\* being an audio-only capture.
C23_RetriesBeforeGivingUp ==
  initState = "failed" => attempts >= 3

\* C24: the first failure of a start sequence that is still wanted (the
\* component is mounted) does not end the start as failed: the sequence is
\* run once more.
C24_FirstFailureRetried ==
  [][(InitMediaRejected /\ mounted /\ attempts = 1) =>
        initState' # "failed"]_vars

\* Outbound call c is placed and not open yet.
PendingOutbound(c) ==
  c \in CallIds /\ calls[c].dir = "out" /\ calls[c].loc = "pending"

\* Outbound call c has left the pending state and the registry does not hold
\* it as a pending entry.
NoLongerPending(c) ==
  c \in CallIds /\ calls[c].loc # "pending"

\* C25: every outbound call that is placed and not open is eventually opened
\* or closed and evicted: none stays pending in the registry forever.
C25_PendingCallTimesOut ==
  \A c \in 1..MaxCalls : PendingOutbound(c) ~> NoLongerPending(c)

\* A step of TeardownSteps other than the clearing of the flags.
Releases(step) == step # "flags"

\* C26: a teardown stops the local tracks, closes the calls, closes the call
\* transport and disconnects the signaling channel in that order, and clears
\* the established flag only after all of them.
C26_TeardownOrder ==
  last.op \in {"cleanup", "EffectRerun"} =>
    /\ SelectSeq(TeardownSteps, Releases) =
         << "tracks", "calls", "transport", "channel" >>
    /\ \A i \in 1..Len(TeardownSteps) :
         TeardownSteps[i] = "flags" => i = Len(TeardownSteps)

\* The step is a 'close' or an 'error' event of call c.
CallFails(c) == CallClose(c) \/ CallError(c)

\* What a step leaves alone when it only touches the entries of peer p and
\* the record of call c.
OnlyTouches(p, c) ==
  /\ \A q \in PeerIds \ {p} :
       peersRef'[q] = peersRef[q] /\ participants'[q] = participants[q]
  /\ \A d \in CallIds \ {c} : calls'[d] = calls[d]
  /\ UNCHANGED << streamRef, liveTracks, roomState, isHost,
                  connectionEstablished, mounted, socket, peer, timers >>

\* C27: a 'close' or 'error' event of one peer's call changes no entry but
\* that peer's, which it removes ('close') or removes at most ('error'); the
\* entries of every other peer, the other calls, the local stream, the
\* admission state and the established flag stay as they were, and the
\* session (component, socket, Peer) stays up.
C27_FailureIsolated ==
  [][\A c \in CallIds :
       /\ CallFails(c) =>
            /\ OnlyTouches(calls[c].peer, c)
            /\ peersRef'[calls[c].peer] \in {0, peersRef[calls[c].peer]}
            /\ participants'[calls[c].peer] \in
                 {Absent, participants[calls[c].peer]}
       /\ CallClose(c) =>
            /\ peersRef'[calls[c].peer] = 0
            /\ mounted => ~participants'[calls[c].peer].there]_vars

\* The call with p1 has just closed while p2 is registered and shown.
C27_OneOfTwoClosed ==
  /\ last = [op |-> "CallClose", arg |-> "p1"]
  /\ peersRef["p1"] = 0 /\ ~participants["p1"].there
  /\ peersRef["p2"] # 0 /\ participants["p2"].there
  /\ streamRef # {} /\ socket = "connected" /\ peer = "open"

\* C28: no outbound call is placed between a room-error event and the
\* teardown it leads to: the step that follows the room-error handler in a
\* session not yet torn down places none.
C28_NoCallAfterRoomError ==
  [][(last.op = "RoomError" /\ mounted) => ~OutboundPlaced]_vars

\* The last step was a user-left or user-removed event naming last.arg.
DepartureHandled == last.op \in {"UserLeft", "UserRemoved"}

\* C29: after a user-left or user-removed event naming a peer id, self holds
\* no call with that peer that is not closed, and neither the registry nor
\* the participants map of the mounted component has an entry for it.
C29_DepartedPeerGone ==
  DepartureHandled =>
    /\ LiveCallsWith(last.arg) = {}
    /\ peersRef[last.arg] = 0
    /\ mounted => ~participants[last.arg].there


C31_VideoOffEffect ==
  [][(toggleVideoStop /\ streamRef # {}) =>
       /\ liveTracks' = liveTracks \ VideoTracks(streamRef)
       /\ streamRef' = AudioTracks(streamRef)
       /\ muted' = muted /\ audioEnabled' = audioEnabled
       /\ videoEnabled' = FALSE
       /\ last'.arg = "false"
       /\ Len(calls') = Len(calls)
       /\ \A c \in CallIds :
            calls'[c].loc = calls[c].loc /\ calls'[c].rem = calls[c].rem]_vars

\* Video has just been turned off by a muted user in a call with p1: the
\* stream is the live, disabled audio track and the call is still open.
C31_VideoOffInCall ==
  /\ last = [op |-> "toggleVideoStop", arg |-> "false"]
  /\ ~videoEnabled
  /\ streamRef # {} /\ VideoTracks(streamRef) = {}
  /\ streamRef \subseteq liveTracks /\ streamRef \subseteq muted
  /\ peersRef["p1"] # 0 /\ calls[peersRef["p1"]].loc = "open"

\* C32: every local track that has not been stopped belongs to the stream the
\* session currently holds: a stream that was replaced has no live track.
C32_NoTrackLeak ==
  liveTracks \subseteq streamRef

\* Nothing of the start sequence has happened: no media was requested or
\* acquired, no socket and no Peer exists and no join-room was emitted.
NothingStarted ==
  /\ attempts = 0 /\ inits = 0 /\ nStreams = 0 /\ streamRef = {}
  /\ socket = "none" /\ peer = "none" /\ ~joined

\* C33: without a username nothing is started; a socket or a Peer exists only
\* after a media acquisition has succeeded, and join-room only after they
\* exist; a rejected acquisition creates no socket and no Peer and emits no
\* join-room.
C33_StartOrder ==
  /\ [](~username => NothingStarted)
  /\ []((socket # "none" \/ peer # "none") => nStreams >= 1)
  /\ [](joined => socket # "none" /\ peer # "none")
  /\ [][InitMediaRejected =>
          UNCHANGED << socket, peer, joined, lostSockets, lostPeers,
                       streamRef, nStreams >>]_vars

\* The first acquisition has just been rejected: there is no socket, no Peer
\* and no join.
C33_FailedStart ==
  /\ last.op = "InitMediaRejected"
  /\ username /\ initState = "failed" /\ attempts = 1
  /\ socket = "none" /\ peer = "none" /\ ~joined /\ nStreams = 0

\* C34: every key of the participants map is a key of the registry: no
\* participant entry exists for a peer id that has no registered call.
C34_ParticipantsHaveCalls ==
  \A p \in PeerIds : participants[p].there => peersRef[p] # 0


\* Call c is not the call the registry holds for its peer, and the registry
\* holds a call for that peer that self has not closed.
Superseded(c) ==
  /\ peersRef[calls[c].peer] \notin {0, c}
  /\ SelfLive(peersRef[calls[c].peer])

\* C35: a 'close' or 'error' event of a call that a later call from the same
\* peer has replaced in the registry leaves the registry entry and the
\* participant entry of that peer, which belong to the newer call, in place.
C35_StaleEventKeepsNewerCall ==
  [][\A c \in CallIds :
       (CallFails(c) /\ Superseded(c)) =>
         /\ peersRef'[calls[c].peer] = peersRef[calls[c].peer]
         /\ participants'[calls[c].peer] = participants[calls[c].peer]]_vars

\* C36: whenever connectionEstablished.current is true the admission state
\* is approved.
C36_EstablishedOnlyWhenApproved ==
  connectionEstablished => roomState = "approved"

\* C37: join-room is emitted at most once per initialized session: the Peer's
\* 'open' handler emits it only when none has been emitted since the socket
\* and the Peer of the session were created.
C37_JoinOncePerSession ==
  [][PeerOpen => ~joined]_vars

\* C38: a toggleVideo whose getUserMedia is rejected leaves videoEnabled, the
\* current stream, the live tracks, the enabled flags, every call with its
\* senders and the registry as they were, and emits no toggle-video.
C38_FailedVideoOnKeepsState ==
  [][toggleVideoRejected =>
       /\ UNCHANGED << videoEnabled, streamRef, liveTracks, muted,
                       audioEnabled, calls, peersRef, participants >>
       /\ last'.arg = "-"]_vars

\* Turning video on has just failed in a call with p1: video is still off and
\* the audio-only stream is live.
C38_VideoOnFailedInCall ==
  /\ last = [op |-> "toggleVideoRejected", arg |-> "-"]
  /\ mounted /\ ~videoEnabled
  /\ streamRef # {} /\ VideoTracks(streamRef) = {}
  /\ streamRef \subseteq liveTracks
  /\ peersRef["p1"] # 0 /\ calls[peersRef["p1"]].loc = "open"


\* C39: a 'stream' event for a peer that already has a participant entry
\* keeps the audioEnabled and videoEnabled flags mirrored from that peer's
\* toggle events and its display name; only the stream and the call of the
\* entry are updated.
C39_StreamKeepsMirroredFlags ==
  [][\A c \in CallIds :
       (CallStream(c) /\ mounted /\ participants[calls[c].peer].there
          /\ participants[calls[c].peer].call # 0) =>
         /\ participants'[calls[c].peer].audioEnabled =
              participants[calls[c].peer].audioEnabled
         /\ participants'[calls[c].peer].videoEnabled =
              participants[calls[c].peer].videoEnabled
         /\ participants'[calls[c].peer].username =
              participants[calls[c].peer].username]_vars

\* C40: a delayed outbound call whose timer fires after the component was
\* torn down places no call and adds no registry entry.
C40_LateTimerPlacesNoCall ==
  [][(~mounted /\ \E p \in PeerIds : TimerFires(p)) =>
       UNCHANGED << calls, peersRef >>]_vars
====
